---- MODULE Spec2Model ----
(***************************************************************************)
(* A model of the ThingCLI (twc) command line tool: discovery and          *)
(* dependency ordering of the sub-projects of a multi-project repository,  *)
(* the build / zip / remove / upload / deploy pipeline of src/index.ts     *)
(* and the watch command.                                                  *)
(***************************************************************************)
EXTENDS Integers, Sequences, FiniteSets, TLC

(***************************************************************************)
(* Bounds                                                                  *)
(***************************************************************************)
\* the largest number of sub-project folders under src/
MaxProjects == 3
\* the largest number of sibling references ("../<name>") declared in the
\* tsconfig.json files of one repository
MaxEdges == 2
\* the largest number of deployment endpoints one build collects
MaxEndpoints == 1

(***************************************************************************)
(* The repository: folders under src/, in readdirSync order                *)
(***************************************************************************)
ProjectNames == <<"A", "B", "C", "D", "E">>
\* a name no folder under src/ has
MissingName == "Z"

Names == {ProjectNames[i] : i \in 1..MaxProjects}

\* TWProjectKind
TypeScript == "TypeScript"
XML == "XML"

\* An include entry of tsconfig.json, as split('/') sees it: its components.
SiblingPath(n) == <<"..", n>>
\* the entries every typescript sub-project of the project template declares
DefaultInclude == {<<"src", "**", "*.ts">>, <<"..", "*.d.ts">>, <<"..", "..", "static">>}

\* components[1].includes('*') || components[1].includes('.')
IncludesStarOrDot(c) == c \in {"*", "**", "*.ts", "*.d.ts", ".", ".."}

Range(s) == {s[i] : i \in 1..Len(s)}
Reverse(s) == [i \in 1..Len(s) |-> s[Len(s) + 1 - i]]

(***************************************************************************)
(* TWProjectUtilities.dependencySortedProjects                             *)
(***************************************************************************)
\* the names a project's include list refers to as "../<ProjectName>"
NamedDependencies(p) ==
    IF p.kind = TypeScript
    THEN {c[2] : c \in {q \in p.include : Len(q) = 2 /\ q[1] = ".." /\ ~IncludesStarOrDot(q[2])}}
    ELSE {}

\* the first project, in array order, that names a dependency no project has
FirstUnresolved_NoCheck(ps) == 0
FirstUnresolved(ps) ==
    LET bad == {i \in 1..Len(ps) : \E d \in NamedDependencies(ps[i]) : \A j \in 1..Len(ps) : ps[j].name # d}
    IN IF bad = {} THEN 0 ELSE CHOOSE i \in bad : \A j \in bad : i <= j

\* the comparator handed to Array.prototype.sort
Compare(p1, p2) ==
    IF p1.name \in NamedDependencies(p2) THEN 1
    ELSE IF p2.name \in NamedDependencies(p1) THEN -1
    ELSE 0

\* Array.prototype.sort as node runs it (V8 TimSort).  Arrays shorter than 64
\* elements are sorted as one run: the leading run is counted (and reversed
\* when strictly descending), the rest is added by binary insertion.
RECURSIVE RunEnd(_, _, _)
RunEnd(a, idx, descending) ==
    IF idx > Len(a) THEN idx - 1
    ELSE LET order == Compare(a[idx], a[idx - 1])
         IN IF (descending /\ order >= 0) \/ (~descending /\ order < 0)
            THEN idx - 1
            ELSE RunEnd(a, idx + 1, descending)

CountAndMakeRun(a) ==
    IF Len(a) < 2 THEN [run |-> Len(a), arr |-> a]
    ELSE LET descending == Compare(a[2], a[1]) < 0
             n == RunEnd(a, 3, descending)
         IN [run |-> n,
             arr |-> IF descending
                     THEN [i \in 1..Len(a) |-> IF i <= n THEN a[n + 1 - i] ELSE a[i]]
                     ELSE a]

RECURSIVE BinarySearch(_, _, _, _)
BinarySearch(a, pivot, left, right) ==
    IF left >= right THEN left
    ELSE LET mid == left + ((right - left) \div 2)
         IN IF Compare(pivot, a[mid]) < 0
            THEN BinarySearch(a, pivot, left, mid)
            ELSE BinarySearch(a, pivot, mid + 1, right)

RECURSIVE BinaryInsertionSort(_, _)
BinaryInsertionSort(a, start) ==
    IF start > Len(a) THEN a
    ELSE LET pivot == a[start]
             pos == BinarySearch(a, pivot, 1, start)
             moved == [i \in 1..Len(a) |->
                          IF i < pos \/ i > start THEN a[i]
                          ELSE IF i = pos THEN pivot
                          ELSE a[i - 1]]
         IN BinaryInsertionSort(moved, start + 1)

SortProjects(a) ==
    IF Len(a) < 2 THEN a
    ELSE LET r == CountAndMakeRun(a) IN BinaryInsertionSort(r.arr, r.run + 1)

\* the outcome of one call: the error thrown or the array returned
DependencySortedProjects(ps) ==
    LET i == FirstUnresolved(ps)
    IN IF i # 0
       THEN [threw |-> TRUE,
             dependent |-> ps[i].name,
             dependency |-> CHOOSE d \in NamedDependencies(ps[i]) : \A j \in 1..Len(ps) : ps[j].name # d,
             list |-> << >>]
       ELSE [threw |-> FALSE, dependent |-> "", dependency |-> "", list |-> SortProjects(ps)]


\* TSUtilities.projects: only the folders that hold a tsconfig.json
TSProjects(ps) == SelectSeq(ps, LAMBDA p : p.kind = TypeScript)

\* TSUtilities.dependencySortedProjects, the copy the remove script calls
TSDependencySortedProjects(ps) == DependencySortedProjects(TSProjects(ps))

NamesOf(list) == [i \in 1..Len(list) |-> list[i].name]

(***************************************************************************)
(* Repositories the commands are run in                                    *)
(***************************************************************************)
\* the sibling references the projects of one repository may declare
EdgeChoices(n) ==
    {e \in (1..n) \X ({ProjectNames[j] : j \in 1..n} \cup {MissingName}) : e[2] # ProjectNames[e[1]]}

EdgeSets(n) == {E \in SUBSET EdgeChoices(n) : Cardinality(E) <= MaxEdges}

\* a folder without tsconfig.json has no include list at all; warns tells
\* whether the sources of the project make the transformer report a warning
Repository(n, xml, E) ==
    [i \in 1..n |->
        [name |-> ProjectNames[i],
         kind |-> IF i \in xml THEN XML ELSE TypeScript,
         warns |-> FALSE,
         include |-> IF i \in xml THEN {}
                     ELSE DefaultInclude \cup {SiblingPath(e[2]) : e \in {f \in E : f[1] = i}}]]

\* the repositories of n projects whose projects in xml hold entity files
RepositoriesOf(n, xml) ==
    {Repository(n, xml, E) : E \in {F \in EdgeSets(n) : \A f \in F : f[1] \notin xml}}

\* the repository ps with sources that make the transformer report a warning
\* in the projects at the places W
WithWarnings(ps, W) == [i \in 1..Len(ps) |-> [ps[i] EXCEPT !.warns = i \in W]]

\* all projects are typescript projects, or the last folder holds entity files
Repositories ==
    UNION {RepositoriesOf(n, {}) \cup RepositoriesOf(n, {n}) : n \in 1..MaxProjects}

\* "A depends on B" as declared, for projects that both exist
DependsOn(ps, a, b) ==
    \E i \in 1..Len(ps) : ps[i].name = a /\ b \in NamedDependencies(ps[i]) /\ \E j \in 1..Len(ps) : ps[j].name = b

RECURSIVE ReachableFrom(_, _, _)
ReachableFrom(ps, S, k) ==
    IF k = 0 THEN S
    ELSE ReachableFrom(ps, S \cup {b \in Range(NamesOf(ps)) : \E a \in S : DependsOn(ps, a, b)}, k - 1)

\* the declared edges form a directed acyclic graph
IsDAG(ps) ==
    \A a \in Range(NamesOf(ps)) :
        a \notin ReachableFrom(ps, {b \in Range(NamesOf(ps)) : DependsOn(ps, a, b)}, Len(ps))

\* in list (of names), a comes before b
Before(list, a, b) ==
    \E i, j \in 1..Len(list) : i < j /\ list[i] = a /\ list[j] = b

(***************************************************************************)
(* Command line arguments                                                  *)
(***************************************************************************)
\* no --projects= argument on the command line (split(',') never gives an
\* empty array, so the empty sequence is free to stand for it)
NoArg == << >>

\* String.prototype.trim on the entries a --projects value is split into
Trim_Nothing(e) == e
Trim(e) ==
    CASE e = " " -> ""
      [] e = " A" -> "A"
      [] e = "B " -> "B"
      [] e = " B " -> "B"
      [] e = "C " -> "C"
      [] OTHER -> e

\* TWProjectUtilities.projectsWithArguments: arg is NoArg or the value after
\* "--projects=" as split(',') cuts it (the empty value is <<"">>)
ProjectsWithArguments_EmptyIsAbsent(arg) ==
    LET list == SelectSeq([i \in 1..Len(arg) |-> Trim(arg[i])], LAMBDA e : e # "")
    IN [threw |-> FALSE, filter |-> list # << >>, list |-> list]
ProjectsWithArguments(arg) ==
    IF arg = NoArg THEN [threw |-> FALSE, filter |-> FALSE, list |-> << >>]
    ELSE IF arg = <<"">> THEN [threw |-> TRUE, filter |-> FALSE, list |-> << >>]
    ELSE [threw |-> FALSE, filter |-> TRUE,
          list |-> SelectSeq([i \in 1..Len(arg) |-> Trim(arg[i])], LAMBDA e : e # "")]

\* projects && !projects.includes(name): the project is skipped
Skipped(arg, name) ==
    LET r == ProjectsWithArguments(arg) IN r.filter /\ name \notin Range(r.list)

(***************************************************************************)
(* The version of package.json                                             *)
(***************************************************************************)
\* packageJSON.version as incrementVersion() cuts it: core is
\* version.split('-')[0].split('.'), suffix holds the parts after the first
\* '-'; join('-') and join('.') put the same string together again
InitialVersion == [core |-> <<"1", "0", "0">>, suffix |-> << >>]

\* the numbers the patch component is written with; "0+b" is the patch 0
\* followed by build metadata
PatchTokens == {"0", "1", "9", "10", "99", "0+b"}

\* parseInt: the number the leading digits give, -1 standing for NaN
ParseInt(token) ==
    CASE token = "0" -> 0
      [] token = "1" -> 1
      [] token = "2" -> 2
      [] token = "3" -> 3
      [] token = "4" -> 4
      [] token = "5" -> 5
      [] token = "9" -> 9
      [] token = "10" -> 10
      [] token = "11" -> 11
      [] token = "12" -> 12
      [] token = "99" -> 99
      [] token = "100" -> 100
      [] token = "0+b" -> 0
      [] OTHER -> -1

\* part_009 12-20: the version incrementVersion() writes back
IncrementedVersion_NoSuffix(v) ==
    [core |-> [v.core EXCEPT ![3] = ToString(ParseInt(v.core[3]) + 1)], suffix |-> << >>]
IncrementedVersion(v) ==
    LET parsed == IF Len(v.core) >= 3 THEN ParseInt(v.core[3]) ELSE -1
        minorVersion == (IF parsed <= 0 THEN 0 ELSE parsed) + 1
    IN [v EXCEPT !.core = [i \in 1..(IF Len(v.core) >= 3 THEN Len(v.core) ELSE 3) |->
                               IF i = 3 THEN ToString(minorVersion)
                               ELSE IF i <= Len(v.core) THEN v.core[i] ELSE ""]]

(***************************************************************************)
(* State                                                                   *)
(***************************************************************************)
VARIABLES
    projects,       \* the folders under src/ with their configuration
    sortResult,     \* what the last call of dependencySortedProjects gave
    filterResult,   \* what the last call of projectsWithArguments gave
    command,        \* process.argv[2]
    args,           \* the arguments after the command
    pc,             \* where main() is
    queue,          \* the projects the running loop has still to visit
    version,        \* the version of package.json
    declared,       \* the projects whose Generated.d.ts declarations() has written
    compiled,       \* the projects buildProject was called for, with the outcome
    endpoints,      \* the deployment endpoints build() has collected
    zipped,         \* the archives zip() wrote under zip/
    removeLog,      \* the packages removeExtension was called for, in order
    removeFailure,  \* the place in removeLog of the first removal that failed, 0 when none
    uploadLog,      \* the upload requests sent, in order, with their outcome
    things,         \* the implementing things deploy() has still to invoke
    deployLog,      \* the requests deploy() sent, in order
    deployFailure,  \* the place in deployLog of the first request that failed, 0 when none
    error,          \* the error main() was rejected with, "" when none
    declarationsRunning,    \* the flag of the watch command
    timers,         \* the setTimeout callbacks of the watch command not yet run
    running,        \* declarations() is running on behalf of the watch command
    pending,        \* the file system events not yet handed to the watch callback
    changes,        \* the changes made under src/ by the user
    runs,           \* the declarations() runs the watch command has started
    dropped,        \* the notifications for source files the watch callback returned from at once
    windowEvents,   \* the notifications for source files since the last timer was set
    windowRuns,     \* the runs started by the timers set since then
    connection,     \* the connection details of TWClient
    sent,           \* the requests TWClient has sent, with their authorization
    projectName,    \* projectName of twconfig.json
    extensionsLog,  \* the uploads of zip/extensions.zip, with their outcome
    dependencyGraph,    \* the dependencies the server reports for each entity
    entityDependencies, \* entityDependencies of twconfig.json
    dependencyIndex,    \* the entries of entityDependencies install() has gone through
    installedEntities,  \* the entities recorded as installed
    callStack,      \* the calls of getEntity that have not returned, the innermost last
    fetchLog        \* the requests the install command has sent, with their outcome

repoVars == <<projects, sortResult, filterResult>>
\* the record of a call made on the projects ps
Called(r, ps) == [r EXCEPT !.list = NamesOf(@)] @@ [called |-> TRUE, discovered |-> Range(NamesOf(ps))]
mainVars == <<command, args, pc, queue, version, declared, compiled, endpoints, zipped,
              removeLog, removeFailure, uploadLog, things, deployLog, deployFailure, error>>
watchVars == <<declarationsRunning, timers, running, pending, changes, runs, dropped,
               windowEvents, windowRuns>>
clientVars == <<connection, sent>>
configVars == <<projectName, extensionsLog>>
installVars == <<dependencyGraph, entityDependencies, dependencyIndex, installedEntities, callStack, fetchLog>>
vars == <<repoVars, mainVars, watchVars, clientVars, configVars, installVars>>

\* the watch command has not been started
WatchIdle ==
    /\ declarationsRunning = FALSE /\ timers = 0 /\ running = FALSE /\ pending = << >>
    /\ changes = 0 /\ runs = 0 /\ dropped = 0 /\ windowEvents = 0 /\ windowRuns = 0

NoResult == [threw |-> FALSE, dependent |-> "", dependency |-> "", list |-> << >>,
             called |-> FALSE, discovered |-> {}]

\* no value: the field is not set
Undefined == "undefined"

\* TWClient has sent nothing; the server is reached with an app key
ClientIdle ==
    /\ connection = [thingworxAppKey |-> "key", thingworxUser |-> Undefined, thingworxPassword |-> Undefined]
    /\ sent = << >>

\* projectName of a multi-project repository
Auto == "@auto"

\* a multi-project repository; upload() has not been called
ConfigIdle == projectName = Auto /\ extensionsLog = << >>

\* the install command has not been started
InstallIdle ==
    /\ dependencyGraph = << >> /\ entityDependencies = << >> /\ dependencyIndex = 0
    /\ installedEntities = {} /\ callStack = << >> /\ fetchLog = << >>

\* projectsWithArguments has not been called
NoFilterResult == [threw |-> FALSE, filter |-> FALSE, list |-> << >>, called |-> FALSE]

\* main() has not been entered
MainIdle ==
    /\ command = "" /\ args = [merged |-> FALSE, remove |-> FALSE, retainVersion |-> FALSE, extensions |-> FALSE, projects |-> NoArg]
    /\ pc = "idle" /\ queue = << >> /\ version = InitialVersion
    /\ declared = << >> /\ compiled = << >> /\ endpoints = << >> /\ zipped = << >>
    /\ removeLog = << >> /\ removeFailure = 0 /\ uploadLog = << >>
    /\ things = << >> /\ deployLog = << >> /\ deployFailure = 0 /\ error = ""

(***************************************************************************)
(* main(): the build, upload, deploy, push and remove commands             *)
(***************************************************************************)
Commands == {"build", "upload", "deploy", "push", "remove"}
UploadCommands == {"upload", "deploy", "push"}

\* the values of --projects the commands are run with
ProjectsArgs ==
    {NoArg, <<"">>, <<"", "">>, <<" A", "C ", "">>}

Args == [merged : BOOLEAN, remove : BOOLEAN, retainVersion : BOOLEAN, extensions : BOOLEAN, projects : ProjectsArgs]

\* the command lines main() is started with; an argument the command never
\* reads is left out
CommandLines ==
    {cl \in [command : Commands, args : Args] :
        /\ cl.command = "build" => ~cl.args.remove /\ ~cl.args.retainVersion
        /\ cl.command = "remove" => ~cl.args.remove /\ ~cl.args.retainVersion /\ cl.args.projects = NoArg
        /\ cl.args.retainVersion => cl.command = "upload" /\ ~cl.args.remove /\ ~cl.args.merged
        /\ cl.args.extensions =>
              /\ cl.command = "upload" /\ ~cl.args.remove /\ ~cl.args.retainVersion
              /\ ~cl.args.merged /\ cl.args.projects = NoArg
        /\ cl.args.merged => cl.args.projects \in {NoArg, <<"">>}}

\* zip.ts 53, upload.ts 62, part_010 24: the repository is handled as one
\* package, in a merged build and in single-project mode
WholeRepository == args.merged \/ projectName # Auto

\* the single package of a merged build, in the place of a project
WholePackage == [name |-> "", kind |-> TypeScript, warns |-> FALSE, include |-> {}]

EntityKinds == {"Thing", "ThingTemplate", "ThingShape", "DataShape"}
\* the @deploy endpoints the transformer reports for one project
EndpointChoices(p) ==
    {<< >>} \cup {<<[kind |-> k, name |-> p.name, service |-> "deploy"]>> : k \in {"Thing", "ThingTemplate"}}

\* the answers of the server to one request
Responses == {"200", "500", "throw"}

Reject(reason) == pc' = "thrown" /\ error' = reason

\* index.ts 62-65: the version is incremented unless it is retained
IncrementVersion ==
    /\ pc = "start" /\ command \in UploadCommands /\ ~args.retainVersion
    /\ version' = IncrementedVersion(version)
    /\ pc' = "declarations"
    /\ UNCHANGED <<installVars, configVars, clientVars, declared, watchVars, repoVars, command, args, queue, compiled, endpoints, zipped,
                   removeLog, removeFailure, uploadLog, things, deployLog, deployFailure, error>>

\* index.ts 51, 57-63, 79: the first stage of the command
Dispatch ==
    /\ pc = "start"
    /\ \/ command = "build" /\ pc' = "declarations"
       \/ command \in UploadCommands /\ args.retainVersion /\ pc' = "declarations"
       \/ command = "remove" /\ pc' = "remove"
    /\ UNCHANGED <<installVars, configVars, clientVars, declared, watchVars, repoVars, command, args, queue, version, compiled, endpoints, zipped,
                   removeLog, removeFailure, uploadLog, things, deployLog, deployFailure, error>>

\* part_006 71-73: forEach has no try / catch: the projects before the one
\* whose transformation throws have their Generated.d.ts, the others have not
\* (failing = 0: no project fails)
DeclaredProjects_AllButFailing(ts, failing) ==
    SelectSeq(ts, LAMBDA n : failing = 0 \/ n # ts[failing])
DeclaredProjects(ts, failing) ==
    IF failing = 0 THEN ts ELSE SubSeq(ts, 1, failing - 1)

\* part_006 67-78: the typescript projects of a multi-project repository, or
\* the repository as a whole
DeclarationTargets ==
    IF projectName = Auto THEN NamesOf(TSProjects(projects)) ELSE <<"">>

\* declarations(): synchronous; a failure of the transformer leaves it as an
\* exception
Declarations ==
    /\ pc = "declarations"
    /\ LET ts == DeclarationTargets
       IN \E failing \in 0..Len(ts) :
             /\ declared' = DeclaredProjects(ts, failing)
             /\ IF failing = 0
                THEN pc' = "build" /\ error' = error
                ELSE Reject("declarations")
    /\ UNCHANGED <<installVars, configVars, clientVars, watchVars, repoVars, command, args, queue, version, compiled, endpoints, zipped,
                   removeLog, removeFailure, uploadLog, things, deployLog, deployFailure>>

\* build(), up to the first iteration of its loop over the sorted projects
BuildBegin ==
    /\ pc = "build" /\ projectName = Auto
    /\ LET r == DependencySortedProjects(projects)
       IN /\ sortResult' = Called(r, projects)
          /\ IF r.threw
             THEN Reject("dependency") /\ queue' = queue
             ELSE /\ queue' = r.list
                  /\ pc' = IF r.list = << >> THEN "zip" ELSE "building"
                  /\ error' = error
    /\ UNCHANGED <<installVars, configVars, clientVars, declared, watchVars, projects, filterResult, command, args, version, compiled, endpoints, zipped,
                   removeLog, removeFailure, uploadLog, things, deployLog, deployFailure>>

\* DiagnosticMessageKind
Error == "Error"
Warning == "Warning"

\* the @diagnosticMessages the transformer leaves in the store for a project
MessageChoices(p) ==
    IF p.warns THEN {<<Warning>>, <<Warning, Error>>} ELSE {<< >>, <<Error>>}

\* part_004 210: diagnosticMessages.some(m => m.kind == DiagnosticMessageKind.Error)
SomeError_AnyKind(messages) == messages # << >>
SomeError(messages) == \E i \in 1..Len(messages) : messages[i] = Error

\* part_004 191, 210: how the compilation of a project ends
Outcome(emitSkipped, messages) ==
    IF emitSkipped THEN "emitSkipped" ELSE IF SomeError(messages) THEN "error" ELSE "ok"

\* part_004 190-218: emit skipped, or an Error among the diagnostic messages
CompileRejects_EmitOnly(outcome) == outcome = "emitSkipped"
CompileRejects(outcome) == outcome \in {"emitSkipped", "error"}

\* part_004 132, 207, 335-337: the loop at the end of buildProject goes over
\* the array declared at 132, to which nothing is ever added: the messages of
\* the store are held by the constant of the same name declared at 207 inside
\* the block of the typescript projects
PrintedAtEnd(messages) == << >>

\* the messages of the transformer buildProject writes to the output: all of
\* them before "Validation failed." is thrown (213-215), none when emit was
\* skipped (the store is not read)
Printed(outcome, messages) ==
    CASE outcome = "emitSkipped" -> << >>
      [] outcome = "error" -> messages
      [] OTHER -> PrintedAtEnd(messages)

\* what buildProject leaves of the compilation of the project p
Compilation(p, emitSkipped, messages) ==
    LET read == IF emitSkipped THEN << >> ELSE messages
        outcome == Outcome(emitSkipped, read)
    IN [project |-> p.name, outcome |-> outcome, messages |-> read, printed |-> Printed(outcome, read)]

\* buildProject(p, outPath) for the next project of the loop
BuildProject ==
    /\ pc = "building" /\ queue # << >>
    /\ LET p == Head(queue)
       IN \/ /\ p.kind = TypeScript
             /\ \E emitSkipped \in BOOLEAN, messages \in MessageChoices(p) :
                   /\ compiled' = Append(compiled, Compilation(p, emitSkipped, messages))
                   /\ IF CompileRejects(Outcome(emitSkipped, messages))
                      THEN Reject(IF emitSkipped THEN "Compilation failed." ELSE "Validation failed.")
                           /\ UNCHANGED <<queue, endpoints>>
                      ELSE /\ \E eps \in EndpointChoices(p) :
                                 /\ Len(endpoints) + Len(eps) <= MaxEndpoints
                                 /\ endpoints' = endpoints \o eps
                           /\ queue' = Tail(queue)
                           /\ pc' = IF Tail(queue) = << >> THEN "zip" ELSE "building"
                           /\ error' = error
          \/ /\ p.kind = XML
             /\ compiled' = Append(compiled, [project |-> p.name, outcome |-> "ok",
                                               messages |-> << >>, printed |-> << >>])
             /\ queue' = Tail(queue)
             /\ pc' = IF Tail(queue) = << >> THEN "zip" ELSE "building"
             /\ UNCHANGED <<endpoints, error>>
    /\ UNCHANGED <<installVars, configVars, clientVars, declared, watchVars, repoVars, command, args, version, zipped,
                   removeLog, removeFailure, uploadLog, things, deployLog, deployFailure>>

\* part_004 101-105, 339: build() in single-project mode.  buildProject is
\* called and not awaited: the call runs the compilation and, when it does
\* not throw, collects the endpoints (232-235) before its first await (266);
\* what is left of it runs before main() is resumed.  The promise it returns
\* is dropped, and build() returns the endpoints whatever became of it.
BuildSingle ==
    /\ pc = "build" /\ projectName # Auto
    /\ \E emitSkipped \in BOOLEAN, warns \in BOOLEAN :
          \E messages \in MessageChoices([WholePackage EXCEPT !.warns = warns]) :
             LET c == Compilation(WholePackage, emitSkipped, messages)
             IN /\ compiled' = Append(compiled, c)
                /\ IF CompileRejects(c.outcome)
                   THEN endpoints' = endpoints
                   ELSE \E eps \in EndpointChoices(WholePackage) :
                           Len(eps) <= MaxEndpoints /\ endpoints' = eps
    /\ pc' = "zip"
    /\ UNCHANGED <<installVars, configVars, clientVars, declared, watchVars, repoVars, command, args, queue, version, zipped,
                   removeLog, removeFailure, uploadLog, things, deployLog, deployFailure, error>>

\* the promise of a buildProject that threw: rejected, and handled by nobody
UnhandledRejection ==
    projectName # Auto /\ \E i \in 1..Len(compiled) : CompileRejects(compiled[i].outcome)

\* node ends the process on an unhandled rejection once the microtasks have
\* run, and main() has called zip() by then; run with
\* --unhandled-rejections=warn it prints the error and goes on
ProcessEnds ==
    /\ pc = "zip" /\ UnhandledRejection
    /\ pc' = "crashed"
    /\ error' = IF compiled[Len(compiled)].outcome = "emitSkipped"
                THEN "Compilation failed." ELSE "Validation failed."
    /\ UNCHANGED <<installVars, configVars, clientVars, declared, watchVars, repoVars, command, args, queue, version, compiled,
                   endpoints, zipped, removeLog, removeFailure, uploadLog, things, deployLog, deployFailure>>

\* index.ts 54, 68-74: what follows zip()
AfterZip_NoRemove == IF command = "build" THEN "done" ELSE "upload"
AfterZip == IF command = "build" THEN "done" ELSE IF args.remove THEN "remove" ELSE "upload"

\* the archives zip() writes: zip/projects/<package>-<project>-<version>.zip
\* with the version package.json holds when zip() is called (zip.ts 17, 70)
ProjectZips_StaleVersion ==
    LET kept == SelectSeq(projects, LAMBDA p : ~Skipped(args.projects, p.name))
    IN [i \in 1..Len(kept) |-> [project |-> kept[i].name, version |-> InitialVersion]]
ProjectZips ==
    LET kept == SelectSeq(projects, LAMBDA p : ~Skipped(args.projects, p.name))
    IN [i \in 1..Len(kept) |-> [project |-> kept[i].name, version |-> version]]

\* zip()
Zip ==
    /\ pc = "zip"
    /\ IF WholeRepository
       THEN /\ zipped' = <<[project |-> "", version |-> version]>>
            /\ pc' = AfterZip /\ error' = error
       ELSE IF ProjectsWithArguments(args.projects).threw
            THEN Reject("No projects have been specified.") /\ zipped' = << >>
            ELSE /\ zipped' = IF command = "build"
                              THEN Append(ProjectZips, [project |-> "", version |-> version])
                              ELSE ProjectZips
                 /\ pc' = AfterZip /\ error' = error
    /\ UNCHANGED <<installVars, configVars, clientVars, declared, watchVars, repoVars, command, args, queue, version, compiled, endpoints,
                   removeLog, removeFailure, uploadLog, things, deployLog, deployFailure>>

\* index.ts 74, 80: what follows remove()
AfterRemove == IF command = "remove" THEN "done" ELSE "upload"

\* remove(), up to the first iteration of its loop
RemoveBegin ==
    /\ pc = "remove"
    /\ IF WholeRepository
       THEN queue' = <<WholePackage>> /\ pc' = "removing" /\ error' = error /\ sortResult' = sortResult
       ELSE LET r == TSDependencySortedProjects(projects)
            IN /\ sortResult' = Called(r, TSProjects(projects))
               /\ IF r.threw
                  THEN Reject("dependency") /\ queue' = queue
                  ELSE /\ queue' = r.list
                       /\ pc' = IF r.list = << >> THEN AfterRemove ELSE "removing"
                       /\ error' = error
    /\ UNCHANGED <<installVars, configVars, clientVars, declared, watchVars, projects, filterResult, command, args, version, compiled, endpoints, zipped,
                   removeLog, removeFailure, uploadLog, things, deployLog, deployFailure>>

\* part_010 45-59: the try / catch around removeExtension lets nothing out
UninstallRejects_NoCatch(response) == response = "throw"
UninstallRejects(response) == FALSE

\* uninstallPackage(projectPackageName) for the next project of the loop
UninstallPackage ==
    /\ pc = "removing" /\ queue # << >>
    /\ removeLog' = Append(removeLog, Head(queue).name)
    /\ \E response \in Responses :
          /\ removeFailure' = IF removeFailure = 0 /\ response # "200" THEN Len(removeLog) + 1 ELSE removeFailure
          /\ IF UninstallRejects(response)
             THEN Reject("remove") /\ queue' = queue
             ELSE /\ queue' = Tail(queue)
                  /\ pc' = IF Tail(queue) = << >> THEN AfterRemove ELSE "removing"
                  /\ error' = error
    /\ UNCHANGED <<installVars, configVars, clientVars, declared, watchVars, repoVars, command, args, version, compiled, endpoints, zipped,
                   uploadLog, things, deployLog, deployFailure>>

\* index.ts 75-77: what follows upload()
AfterUpload_Always == "deploy"
AfterUpload == IF command = "deploy" THEN "deploy" ELSE "done"

\* upload.ts 48-54: the try / catch around the upload of the extensions lets
\* nothing out
ExtensionsRejects_NoCatch(response) == response # "200"
ExtensionsRejects(response) == FALSE

\* upload.ts 33: the answers to the upload of zip/extensions.zip; without
\* --extensions there is no such upload
ExtensionsResponses == IF args.extensions THEN Responses ELSE {"none"}

\* upload(), up to the first iteration of its loop
UploadBegin ==
    /\ pc = "upload"
    /\ IF ProjectsWithArguments(args.projects).threw
       THEN /\ Reject("No projects have been specified.")
            /\ UNCHANGED <<queue, sortResult, extensionsLog>>
       ELSE \E response \in ExtensionsResponses :
          /\ extensionsLog' = IF args.extensions
                              THEN Append(extensionsLog, [response |-> response, uploaded |-> Len(uploadLog)])
                              ELSE extensionsLog
          /\ IF args.extensions /\ ExtensionsRejects(response)
             THEN Reject("extensions") /\ UNCHANGED <<queue, sortResult>>
             ELSE IF WholeRepository
             THEN queue' = <<WholePackage>> /\ pc' = "uploading" /\ error' = error /\ sortResult' = sortResult
             ELSE LET r == DependencySortedProjects(projects)
                      list == SelectSeq(Reverse(r.list), LAMBDA p : ~Skipped(args.projects, p.name))
                  IN /\ sortResult' = Called(r, projects)
                     /\ IF r.threw
                        THEN Reject("dependency") /\ queue' = queue
                        ELSE /\ queue' = IF list = << >> /\ AfterUpload = "deploy" THEN endpoints ELSE list
                             /\ pc' = IF list = << >>
                                      THEN (IF AfterUpload = "deploy" /\ endpoints = << >> THEN "done" ELSE AfterUpload)
                                      ELSE "uploading"
                             /\ error' = error
    /\ UNCHANGED <<installVars, projectName, clientVars, declared, watchVars, projects, filterResult, command, args, version, compiled, endpoints, zipped,
                   removeLog, removeFailure, uploadLog, things, deployLog, deployFailure>>

\* upload.ts 188-194: the request throws, or its status code is not 200
UploadRejects_OnlyThrown(response) == response = "throw"
UploadRejects(response) == response # "200"

\* what the body of an answer with status 200 reports: every row passed, or a
\* row of the validation or of the installation has extensionReportStatus 1
Reports == {"passed", "failed"}
\* no body to report on
NoReport == "none"

\* upload.ts 196-197: the status of the report is written to the output,
\* whatever it holds
ReportRejects_OnFailure(report) == report = "failed"
ReportRejects(report) == FALSE

\* uploadExtension / uploadSourceControlledZip for the next project of the loop
UploadProject ==
    /\ pc = "uploading" /\ queue # << >>
    /\ LET p == Head(queue)
           sourceControl == p.kind = XML /\ command = "push" /\ ~WholeRepository
       IN \E response \in (IF sourceControl THEN {"200", "throw"} ELSE Responses),
             report \in Reports \cup {NoReport} :
             /\ report = NoReport <=> (sourceControl \/ response # "200")
             /\ uploadLog' = Append(uploadLog, [project |-> p.name, version |-> version,
                                                response |-> response, report |-> report])
             /\ IF UploadRejects(response) \/ ReportRejects(report)
                THEN Reject("upload") /\ queue' = queue
                ELSE /\ queue' = IF Tail(queue) = << >> /\ AfterUpload = "deploy" THEN endpoints ELSE Tail(queue)
                     /\ pc' = IF Tail(queue) = << >>
                              THEN (IF AfterUpload = "deploy" /\ endpoints = << >> THEN "done" ELSE AfterUpload)
                              ELSE "uploading"
                     /\ error' = error
    /\ UNCHANGED <<installVars, configVars, clientVars, declared, watchVars, repoVars, command, args, version, compiled, endpoints, zipped,
                   removeLog, removeFailure, things, deployLog, deployFailure>>

(***************************************************************************)
(* deploy(endpoints)                                                       *)
(***************************************************************************)
\* the things GetImplementingThings may report
ThingLists == {<<"T1">>, <<"T1", "T2">>, << >>}

DeployDone(q, t) == IF q = << >> /\ t = << >> THEN "done" ELSE "deploy"

\* deploy.ts 46-59: the try / catch of invokeEndpoint lets nothing out
InvokeRejects_NoCatch(response) == response = "throw"
InvokeRejects(response) == FALSE

\* deploy.ts 19-35: the try / catch around the GetImplementingThings query
QueryRejects(response) == FALSE

FirstFailure(response) ==
    IF deployFailure = 0 /\ response # "200" THEN Len(deployLog) + 1 ELSE deployFailure

\* one iteration of the loop over the endpoints: the direct invocation of a
\* thing's service, or the GetImplementingThings query of a template or shape
DeployEndpoint ==
    /\ pc = "deploy" /\ things = << >> /\ queue # << >>
    /\ LET e == Head(queue)
       IN \/ /\ e.kind = "Thing"
             /\ deployLog' = Append(deployLog, [kind |-> "Thing", name |-> e.name, service |-> e.service, rows |-> << >>])
             /\ \E response \in Responses :
                   /\ deployFailure' = FirstFailure(response)
                   /\ IF InvokeRejects(response)
                      THEN Reject("deploy") /\ queue' = queue
                      ELSE queue' = Tail(queue) /\ pc' = DeployDone(Tail(queue), << >>) /\ error' = error
             /\ things' = things
          \/ /\ e.kind \in {"ThingTemplate", "ThingShape"}
             /\ \/ \E rows \in ThingLists :
                      /\ deployLog' = Append(deployLog, [kind |-> e.kind, name |-> e.name,
                                                         service |-> "GetImplementingThings", rows |-> rows])
                      /\ things' = [i \in 1..Len(rows) |-> [name |-> rows[i], service |-> e.service]]
                      /\ deployFailure' = deployFailure
                      /\ queue' = Tail(queue) /\ pc' = DeployDone(Tail(queue), rows) /\ error' = error
                \/ \E response \in {"200 unparsable", "500", "throw"} :
                      /\ deployLog' = Append(deployLog, [kind |-> e.kind, name |-> e.name,
                                                         service |-> "GetImplementingThings", rows |-> << >>])
                      /\ things' = things
                      /\ deployFailure' = FirstFailure(response)
                      /\ IF QueryRejects(response)
                         THEN Reject("deploy") /\ queue' = queue
                         ELSE queue' = Tail(queue) /\ pc' = DeployDone(Tail(queue), << >>) /\ error' = error
          \/ /\ e.kind \notin {"Thing", "ThingTemplate", "ThingShape"}
             /\ queue' = Tail(queue) /\ pc' = DeployDone(Tail(queue), << >>)
             /\ UNCHANGED <<things, deployLog, deployFailure, error>>
    /\ UNCHANGED <<installVars, configVars, clientVars, declared, watchVars, repoVars, command, args, version, compiled, endpoints, zipped,
                   removeLog, removeFailure, uploadLog>>

\* invokeEndpoint for the next row of the GetImplementingThings result
DeployInvokeThing ==
    /\ pc = "deploy" /\ things # << >>
    /\ deployLog' = Append(deployLog, [kind |-> "Thing", name |-> Head(things).name,
                                       service |-> Head(things).service, rows |-> << >>])
    /\ \E response \in Responses :
          /\ deployFailure' = FirstFailure(response)
          /\ IF InvokeRejects(response)
             THEN Reject("deploy") /\ things' = things
             ELSE things' = Tail(things) /\ pc' = DeployDone(queue, Tail(things)) /\ error' = error
    /\ UNCHANGED <<installVars, configVars, clientVars, declared, watchVars, repoVars, command, args, queue, version, compiled, endpoints, zipped,
                   removeLog, removeFailure, uploadLog>>

Init ==
    /\ projects \in Repositories
    /\ sortResult = NoResult /\ filterResult = NoFilterResult
    /\ \E cl \in CommandLines : command = cl.command /\ args = cl.args
    /\ pc = "start" /\ queue = << >> /\ version = InitialVersion
    /\ declared = << >> /\ compiled = << >> /\ endpoints = << >> /\ zipped = << >>
    /\ removeLog = << >> /\ removeFailure = 0 /\ uploadLog = << >>
    /\ things = << >> /\ deployLog = << >> /\ deployFailure = 0 /\ error = ""
    /\ InstallIdle /\ ConfigIdle /\ WatchIdle /\ ClientIdle

Next ==
    \/ IncrementVersion
    \/ Dispatch
    \/ Declarations
    \/ BuildBegin
    \/ BuildProject
    \/ Zip
    \/ RemoveBegin
    \/ UninstallPackage
    \/ UploadBegin
    \/ UploadProject
    \/ DeployEndpoint
    \/ DeployInvokeThing

Spec == Init /\ [][Next]_vars

\* some project declares a sibling reference that no folder under src/ answers
HasUnresolved(ps) ==
    \E i \in 1..Len(ps) : \E d \in NamedDependencies(ps[i]) : \A j \in 1..Len(ps) : ps[j].name # d

\* an upload of the running command was answered by an error
UploadFailed == \E i \in 1..Len(uploadLog) : uploadLog[i].response # "200"

\* C2: in separate mode, once the upload of one project has failed upload()
\* has thrown: no further upload request is sent, and no removal or any other
\* request is issued for the projects uploaded before it.
C2_UploadFailureAborts ==
    /\ [](UploadFailed /\ ~args.merged =>
             /\ pc = "thrown" /\ error = "upload"
             /\ \A i \in 1..Len(uploadLog) : uploadLog[i].response # "200" => i = Len(uploadLog))
    /\ [][UploadFailed /\ ~args.merged =>
             uploadLog' = uploadLog /\ removeLog' = removeLog /\ deployLog' = deployLog]_vars

C2_Witness ==
    /\ ~args.merged /\ pc = "thrown"
    /\ Len(uploadLog) = 2 /\ uploadLog[1].response = "200" /\ uploadLog[2].response = "500"
    /\ Len(queue) = 2

\* C3: a project whose compilation skips emit or reports an Error is the last
\* one build() compiles; main() is rejected and nothing is zipped, removed,
\* uploaded or deployed.
C3_CompileFailureAborts ==
    \A i \in 1..Len(compiled) :
        compiled[i].outcome # "ok" =>
            /\ i = Len(compiled)
            /\ pc = "thrown"
            /\ zipped = << >> /\ removeLog = << >> /\ uploadLog = << >> /\ deployLog = << >>

C3_Witness ==
    /\ pc = "thrown" /\ error = "Validation failed."
    /\ Len(compiled) = 2 /\ compiled[2].outcome = "error"
    /\ Len(queue) = 2

\* C4: in separate mode, for every declared edge (P depends on Q) whose projects
\* are both uploaded, the upload of Q comes before the upload of P.
C4_UploadOrder ==
    (~args.merged /\ IsDAG(projects)) =>
        \A i, j \in 1..Len(uploadLog) :
            DependsOn(projects, uploadLog[j].project, uploadLog[i].project) => i < j

\* C5: when a project refers to a sibling that does not exist,
\* dependencySortedProjects throws an error that names the project and the
\* sibling it has not found and returns no list, and no project is compiled,
\* removed or uploaded.
C5_UnresolvedDependencyThrows ==
    (sortResult.called /\ HasUnresolved(projects)) =>
        /\ sortResult.threw /\ sortResult.list = << >>
        /\ sortResult.dependency \notin sortResult.discovered
        /\ \E i \in 1..Len(projects) :
              /\ projects[i].name = sortResult.dependent
              /\ sortResult.dependency \in NamedDependencies(projects[i])
        /\ pc = "thrown"
        /\ compiled = << >> /\ uploadLog = << >>
        /\ \A k \in 1..Len(removeLog) : removeLog[k] = WholePackage.name

C5_Witness ==
    /\ Len(projects) = 3 /\ pc = "thrown" /\ error = "dependency"
    /\ sortResult.threw /\ sortResult.dependent = "B" /\ sortResult.dependency = MissingName

\* the packages remove() goes through
PackagesToRemove ==
    IF args.merged THEN <<WholePackage.name>> ELSE NamesOf(TSDependencySortedProjects(projects).list)

\* C6: a removal that fails never rejects remove(): the removals of the
\* remaining packages are still requested and the command goes on.
C6_RemoveFailureNotFatal ==
    /\ error # "remove"
    /\ removeFailure # 0 =>
          IF pc = "removing"
          THEN removeLog \o NamesOf(queue) = PackagesToRemove
          ELSE removeLog = PackagesToRemove

C6_Witness ==
    /\ command = "upload" /\ ~args.merged
    /\ removeFailure = 1 /\ Len(removeLog) = 3
    /\ Len(uploadLog) >= 1 /\ uploadLog[1].response = "200"

\* C7: in separate mode, for every declared edge (P depends on Q), the removal
\* of P's package is requested before the removal of Q's package.
C7_RemoveOrder ==
    (~args.merged /\ IsDAG(projects)) =>
        \A i, j \in 1..Len(removeLog) :
            DependsOn(projects, removeLog[i], removeLog[j]) => i < j

(***************************************************************************)
(* The stages of a command                                                 *)
(***************************************************************************)
\* the stage main() is in
Stage(at) ==
    CASE at = "start" -> "Start"
      [] at = "declarations" -> "Declarations"
      [] at \in {"build", "building"} -> "Compile"
      [] at = "zip" -> "Package"
      [] at \in {"remove", "removing"} -> "Remove"
      [] at \in {"upload", "uploading"} -> "Upload"
      [] at = "deploy" -> "Deploy"
      [] at = "done" -> "Done"
      [] OTHER -> "Thrown"

\* the stages the documentation gives for a command, in order
DocumentedStages ==
    CASE command = "build" -> <<"Declarations", "Compile", "Package">>
      [] command = "remove" -> <<"Remove">>
      [] OTHER -> <<"Declarations", "Compile", "Package">>
                  \o (IF args.remove THEN <<"Remove">> ELSE << >>)
                  \o <<"Upload">>
                  \o (IF command = "deploy" THEN <<"Deploy">> ELSE << >>)

\* the names in a log are those of the set, each once
Covers(log, names) == Range(log) = names /\ Len(log) = Cardinality(names)

\* the work of a stage is finished: every project the stage is to visit was
\* visited, with success where a failure ends the stage
StageCompleted(stage) ==
    CASE stage = "Compile" ->
            /\ Covers([i \in 1..Len(compiled) |-> compiled[i].project], Range(NamesOf(projects)))
            /\ \A i \in 1..Len(compiled) : compiled[i].outcome = "ok"
      [] stage = "Package" ->
            IF args.merged THEN zipped # << >>
            ELSE \A i \in 1..Len(projects) :
                    ~Skipped(args.projects, projects[i].name) =>
                        \E k \in 1..Len(zipped) : zipped[k].project = projects[i].name
      [] stage = "Remove" ->
            Covers(removeLog, IF args.merged THEN {WholePackage.name}
                              ELSE Range(NamesOf(TSProjects(projects))))
      [] stage = "Upload" ->
            /\ Covers([i \in 1..Len(uploadLog) |-> uploadLog[i].project],
                      IF args.merged THEN {WholePackage.name}
                      ELSE {n \in Range(NamesOf(projects)) : ~Skipped(args.projects, n)})
            /\ \A i \in 1..Len(uploadLog) : uploadLog[i].response = "200"
      [] OTHER -> TRUE

\* the place of a stage among the documented stages, 0 when it is not there
StagePlace(stage) ==
    LET at == {i \in 1..Len(DocumentedStages) : DocumentedStages[i] = stage}
    IN IF at = {} THEN 0 ELSE CHOOSE i \in at : TRUE

\* C11: a command goes through its documented stages in order: the first stage
\* entered is the first documented one, a stage is left only for the next
\* documented stage, the command ends after the last one (deploy() with no
\* endpoint to call has nothing to do), the version is written only before
\* Declarations, and while a stage runs the work of every stage documented
\* before it is finished.
C11_StagesInOrder ==
    /\ [](Stage(pc) \notin {"Start", "Thrown"} =>
             \A k \in 1..Len(DocumentedStages) :
                 (Stage(pc) = "Done" \/ k < StagePlace(Stage(pc))) => StageCompleted(DocumentedStages[k]))
    /\ [][LET from == Stage(pc)
              to == Stage(pc')
          IN /\ (to # from /\ to # "Thrown") =>
                   /\ from = "Start" => StagePlace(to) = 1
                   /\ (from # "Start" /\ to # "Done") =>
                         /\ StagePlace(from) # 0
                         /\ StagePlace(to) = StagePlace(from) + 1
                   /\ to = "Done" =>
                         \/ StagePlace(from) = Len(DocumentedStages)
                         \/ /\ command = "deploy" /\ endpoints = << >>
                            /\ StagePlace(from) = Len(DocumentedStages) - 1
             /\ version' # version => from = "Start" /\ to = "Declarations"
             /\ from \in {"Done", "Thrown"} => to = from
         ]_vars

C11_Witness ==
    /\ command = "deploy" /\ args.remove /\ ~args.retainVersion /\ ~args.merged
    /\ pc = "done" /\ version.core = <<"1", "0", "1">>
    /\ Len(compiled) = 3 /\ Len(zipped) = 3 /\ Len(removeLog) = 3 /\ Len(uploadLog) = 3
    /\ Len(deployLog) = 1

(***************************************************************************)
(* SpecVersion: the commands started with every version in package.json    *)
(***************************************************************************)
\* the versions package.json holds when a command is started
Versions ==
    {[core |-> <<major, minor, patch>>, suffix |-> suffix] :
        major \in {"0", "1"}, minor \in {"0", "12"}, patch \in PatchTokens,
        suffix \in {<< >>, <<"beta">>, <<"beta", "1">>, <<"rc.1+b">>}}

InitVersion ==
    /\ projects = << >> /\ sortResult = NoResult /\ filterResult = NoFilterResult
    /\ \E cl \in CommandLines :
          /\ ~cl.args.merged /\ cl.args.projects = NoArg
          /\ command = cl.command /\ args = cl.args
    /\ version \in Versions
    /\ pc = "start" /\ queue = << >>
    /\ declared = << >> /\ compiled = << >> /\ endpoints = << >> /\ zipped = << >>
    /\ removeLog = << >> /\ removeFailure = 0 /\ uploadLog = << >>
    /\ things = << >> /\ deployLog = << >> /\ deployFailure = 0 /\ error = ""
    /\ InstallIdle /\ ConfigIdle /\ WatchIdle /\ ClientIdle

NextVersion == IncrementVersion \/ Dispatch \/ Declarations

SpecVersion == InitVersion /\ [][NextVersion]_vars

MaxRestarts == 2

\* part_009 10, 22: the version a new process finds in package.json is the
\* one the last incrementVersion() wrote
VersionAtStart_Initial == InitialVersion
VersionAtStart == version

\* the repository the command is started again in: B refers to A, C is a
\* folder of entity XML files
RepositoryAgain == Repository(3, {3}, {<<2, "A">>})

InitAgain ==
    /\ projects = RepositoryAgain
    /\ sortResult = NoResult /\ filterResult = NoFilterResult
    /\ \E cl \in CommandLines : command = cl.command /\ args = cl.args
    /\ pc = "start" /\ queue = << >> /\ version = InitialVersion
    /\ declared = << >> /\ compiled = << >> /\ endpoints = << >> /\ zipped = << >>
    /\ removeLog = << >> /\ removeFailure = 0 /\ uploadLog = << >>
    /\ things = << >> /\ deployLog = << >> /\ deployFailure = 0 /\ error = ""
    /\ InstallIdle /\ ConfigIdle /\ WatchIdle /\ ClientIdle

\* index.ts 22, 119-123: after main() was rejected the same command line is
\* run once more, in a new process
StartAgain ==
    /\ pc = "thrown"
    /\ ParseInt(version.core[3]) < MaxRestarts
    /\ pc' = "start" /\ error' = ""
    /\ version' = VersionAtStart
    /\ queue' = << >> /\ declared' = << >> /\ compiled' = << >> /\ endpoints' = << >> /\ zipped' = << >>
    /\ removeLog' = << >> /\ removeFailure' = 0 /\ uploadLog' = << >>
    /\ things' = << >> /\ deployLog' = << >> /\ deployFailure' = 0
    /\ sortResult' = NoResult /\ extensionsLog' = << >>
    /\ UNCHANGED <<installVars, projectName, clientVars, watchVars, projects, filterResult, command, args>>

NextAgain == Next \/ StartAgain

SpecAgain == InitAgain /\ [][NextAgain]_vars

\* the version was written by the running command
Bumps == command \in UploadCommands /\ ~args.retainVersion

\* C13: the step in which a stage fails leaves the version as the bump wrote
\* it, nothing restores it afterwards, and the command started again after
\* the failure adds one more to the patch number.
C13_VersionNotRolledBack ==
    /\ []((Bumps /\ pc = "thrown") => ParseInt(version.core[3]) >= 1)
    /\ [][/\ (pc' = "thrown" \/ pc = "thrown") => version' = version
          /\ (Bumps /\ pc = "start") => ParseInt(version'.core[3]) = ParseInt(version.core[3]) + 1
         ]_vars

C13_Witness ==
    /\ command = "upload" /\ pc = "thrown" /\ error = "upload"
    /\ version.core = <<"1", "0", "2">>

(***************************************************************************)
(* SpecFilter: projectsWithArguments called with every --projects value    *)
(***************************************************************************)
\* the largest number of entries split(',') cuts a --projects value into
MaxEntries == 3

\* the entries between the commas of a --projects value
Entries == {"", " ", "A", " A", "B", "B ", " B ", "C "}

FilterValues ==
    {NoArg} \cup UNION {[1..n -> Entries] : n \in 1..MaxEntries}

InitFilter ==
    /\ projects = << >> /\ sortResult = NoResult /\ filterResult = NoFilterResult
    /\ command = "upload"
    /\ args \in [merged : {FALSE}, remove : {FALSE}, retainVersion : {FALSE}, extensions : {FALSE}, projects : FilterValues]
    /\ pc = "start" /\ queue = << >> /\ version = InitialVersion
    /\ declared = << >> /\ compiled = << >> /\ endpoints = << >> /\ zipped = << >>
    /\ removeLog = << >> /\ removeFailure = 0 /\ uploadLog = << >>
    /\ things = << >> /\ deployLog = << >> /\ deployFailure = 0 /\ error = ""
    /\ InstallIdle /\ ConfigIdle /\ WatchIdle /\ ClientIdle

CallProjectsWithArguments ==
    /\ ~filterResult.called
    /\ filterResult' = ProjectsWithArguments(args.projects) @@ [called |-> TRUE]
    /\ UNCHANGED <<installVars, configVars, clientVars, projects, sortResult, mainVars, watchVars>>

NextFilter == CallProjectsWithArguments

SpecFilter == InitFilter /\ [][NextFilter]_vars

\* the project name written in an entry, "" when the entry holds none
NameIn(entry) ==
    CASE entry \in {"A", " A"} -> "A"
      [] entry \in {"B", "B ", " B "} -> "B"
      [] entry \in {"C "} -> "C"
      [] OTHER -> ""

\* the names written in a --projects value, in the order they are written
RECURSIVE NamesWritten(_)
NamesWritten(arg) ==
    IF arg = << >> THEN << >>
    ELSE (IF NameIn(Head(arg)) = "" THEN << >> ELSE <<NameIn(Head(arg))>>) \o NamesWritten(Tail(arg))

\* C14: without a --projects argument projectsWithArguments returns undefined
\* (no filter, not an empty list); for a value that names projects it returns
\* the names written in it, trimmed, without the empty entries, in the order
\* they are written.
C14_FilterNames ==
    filterResult.called =>
        /\ args.projects = NoArg =>
              ~filterResult.threw /\ ~filterResult.filter
        /\ (args.projects # NoArg /\ NamesWritten(args.projects) # << >>) =>
              /\ ~filterResult.threw /\ filterResult.filter
              /\ filterResult.list = NamesWritten(args.projects)

C14_Witness ==
    /\ filterResult.called /\ args.projects = <<"A", " B ", "">>
    /\ filterResult.filter /\ filterResult.list = <<"A", "B">>

\* the --projects argument is given and names no project
EmptyFilter == args.projects # NoArg /\ NamesWritten(args.projects) = << >>

\* C15 as the specification states it: a --projects argument that names no
\* project is no filter: no stage throws on it and every project is packaged
\* and uploaded.
C15_EmptyFilterMeansNoFilter ==
    EmptyFilter =>
        /\ error # "No projects have been specified."
        /\ (~args.merged /\ Stage(pc) \in {"Remove", "Upload", "Deploy", "Done"}) =>
              \A i \in 1..Len(projects) : \E k \in 1..Len(zipped) : zipped[k].project = projects[i].name
        /\ (~args.merged /\ command \in UploadCommands /\ pc = "done") =>
              Covers([i \in 1..Len(uploadLog) |-> uploadLog[i].project], Range(NamesOf(projects)))

\* C15 as the code has it: the empty value ("--projects=") makes the first
\* script that reads the argument throw "No projects have been specified."
\* (zip() in separate mode, upload() in merged mode; a merged build reads it
\* nowhere), and a value of
\* separators and white space only ("--projects=,") is the empty list: no
\* project is packaged and none is uploaded.
C15_EmptyFilterExcludesAll ==
    EmptyFilter =>
        /\ uploadLog = << >>
        /\ ~args.merged => \A k \in 1..Len(zipped) : zipped[k].project = WholePackage.name
        /\ (args.projects = <<"">> /\ ~args.merged) =>
              Stage(pc) \in {"Start", "Declarations", "Compile", "Package", "Thrown"}
        /\ (args.projects = <<"">> /\ args.merged /\ command \in UploadCommands) =>
              pc # "uploading" /\ Stage(pc) \notin {"Deploy", "Done"}
        /\ args.projects # <<"">> => error # "No projects have been specified."

C15_Witness ==
    /\ command = "upload" /\ args.projects = <<"", "">> /\ pc = "done"
    /\ Len(compiled) = 3 /\ zipped = << >> /\ uploadLog = << >>

(***************************************************************************)
(* SpecClient: the requests of TWClient under every configuration          *)
(***************************************************************************)
\* the largest number of requests the client is asked for
MaxRequests == 3

\* the values a field of the connection details may hold
Connections ==
    [thingworxAppKey : {Undefined, "", "key"},
     thingworxUser : {Undefined, "", "user"},
     thingworxPassword : {Undefined, "", "password"}]

\* the conversion to boolean of if (value)
Truthy(value) == value \notin {Undefined, ""}

\* TWClient.ts 129-144, 561-577: the authorization a request is given
AuthorizeRequest_UserAlone(c) ==
    IF Truthy(c.thingworxAppKey)
    THEN [threw |-> FALSE, appKey |-> c.thingworxAppKey, auth |-> Undefined]
    ELSE IF Truthy(c.thingworxUser)
    THEN [threw |-> FALSE, appKey |-> Undefined, auth |-> <<c.thingworxUser, c.thingworxPassword>>]
    ELSE [threw |-> TRUE, appKey |-> Undefined, auth |-> Undefined]
AuthorizeRequest(c) ==
    IF Truthy(c.thingworxAppKey)
    THEN [threw |-> FALSE, appKey |-> c.thingworxAppKey, auth |-> Undefined]
    ELSE IF Truthy(c.thingworxUser) /\ Truthy(c.thingworxPassword)
    THEN [threw |-> FALSE, appKey |-> Undefined, auth |-> <<c.thingworxUser, c.thingworxPassword>>]
    ELSE [threw |-> TRUE, appKey |-> Undefined, auth |-> Undefined]

\* the methods of TWClient the upload, remove and deploy scripts call
Operations == {"removeExtension", "importExtension", "invokeEndpoint"}

InitClient ==
    /\ projects = << >> /\ sortResult = NoResult /\ filterResult = NoFilterResult
    /\ MainIdle
    /\ InstallIdle /\ ConfigIdle /\ WatchIdle
    /\ connection \in Connections
    /\ sent = << >>

\* _performRequest: the request is authorized, then sent
PerformRequest ==
    /\ Len(sent) < MaxRequests
    /\ \E operation \in Operations :
          LET authorization == AuthorizeRequest(connection)
          IN IF authorization.threw
             THEN /\ pc' = "thrown"
                  /\ error' = "Unable to authorize a request"
                  /\ sent' = sent
             ELSE /\ pc' = "returned"
                  /\ error' = ""
                  /\ sent' = Append(sent, [operation |-> operation,
                                           appKey |-> authorization.appKey,
                                           auth |-> authorization.auth])
    /\ UNCHANGED <<installVars, configVars, repoVars, watchVars, connection, command, args, queue, version, declared, compiled,
                   endpoints, zipped, removeLog, removeFailure, uploadLog, things, deployLog,
                   deployFailure>>

NextClient == PerformRequest

SpecClient == InitClient /\ [][NextClient]_vars

\* C16: a request that was sent carries the app key when one is configured
\* and the user name and password otherwise, never both and never neither;
\* without an app key and without a complete pair of user name and password
\* no request is sent and the operation asked for has thrown.
C16_OneAuthentication ==
    /\ \A i \in 1..Len(sent) :
          IF connection.thingworxAppKey \notin {Undefined, ""}
          THEN sent[i].appKey = connection.thingworxAppKey /\ sent[i].auth = Undefined
          ELSE /\ sent[i].appKey = Undefined
               /\ sent[i].auth = <<connection.thingworxUser, connection.thingworxPassword>>
               /\ connection.thingworxUser \notin {Undefined, ""}
               /\ connection.thingworxPassword \notin {Undefined, ""}
    /\ (/\ connection.thingworxAppKey \in {Undefined, ""}
        /\ (connection.thingworxUser \in {Undefined, ""} \/ connection.thingworxPassword \in {Undefined, ""})) =>
          /\ sent = << >>
          /\ pc # "idle" => pc = "thrown" /\ error = "Unable to authorize a request"

C16_Witness ==
    /\ connection = [thingworxAppKey |-> "", thingworxUser |-> "user", thingworxPassword |-> Undefined]
    /\ pc = "thrown" /\ sent = << >>

\* C17: an upload answered with status 200 whose report holds a failed
\* validation or installation row does not make upload() throw, and the
\* uploads of the projects after it are still attempted.
C17_FailedReportNotFatal ==
    (\E i \in 1..Len(uploadLog) : uploadLog[i].report = "failed") =>
        /\ ~UploadFailed => pc # "thrown"
        /\ ~args.merged =>
              LET uploaded == [i \in 1..Len(uploadLog) |-> uploadLog[i].project]
                  all == SelectSeq(NamesOf(Reverse(DependencySortedProjects(projects).list)),
                                   LAMBDA n : ~Skipped(args.projects, n))
              IN IF pc = "uploading" THEN uploaded \o NamesOf(queue) = all
                 ELSE pc # "thrown" => uploaded = all

C17_Witness ==
    /\ command = "upload" /\ ~args.merged /\ pc = "done"
    /\ Len(uploadLog) = 3
    /\ uploadLog[1].report = "failed"
    /\ uploadLog[2].report = "passed"
    /\ uploadLog[3].report = "failed"

\* the source projects, in the order declarations() visits them
SourceProjects == NamesOf(TSProjects(projects))

\* C18 as the specification states it: when the declarations of one source
\* project fail, those of every other source project are still generated.
C18_DeclarationsBestEffort ==
    error = "declarations" =>
        \A i \in 1..Len(SourceProjects) :
            i # Len(declared) + 1 => \E k \in 1..Len(declared) : declared[k] = SourceProjects[i]

\* C18 as the code has it: when the declarations of one source project fail,
\* declarations() throws: the projects before it have their declarations, the
\* projects after it have none, and the command ends there; declarations()
\* that returns has generated the declarations of every source project.
C18_DeclarationsFailureAborts ==
    /\ error = "declarations" =>
          /\ pc = "thrown"
          /\ Len(declared) < Len(SourceProjects)
          /\ declared = SubSeq(SourceProjects, 1, Len(declared))
          /\ compiled = << >> /\ zipped = << >> /\ removeLog = << >> /\ uploadLog = << >>
    /\ (error # "declarations" /\ Stage(pc) \notin {"Start", "Declarations"} /\ command # "remove") =>
          declared = SourceProjects

C18_Witness ==
    /\ error = "declarations" /\ pc = "thrown"
    /\ SourceProjects = <<"A", "B", "C">> /\ declared = <<"A">>

\* C19: with a --projects argument that names projects, in separate mode no
\* project outside the named ones is compiled, packaged, removed or uploaded.
C19_FilterAppliesToAllStages ==
    (~args.merged /\ ProjectsWithArguments(args.projects).list # << >>) =>
        LET named == Range(ProjectsWithArguments(args.projects).list)
        IN /\ \A i \in 1..Len(compiled) : compiled[i].project \in named
           /\ \A i \in 1..Len(zipped) : zipped[i].project \in named \cup {WholePackage.name}
           /\ \A i \in 1..Len(removeLog) : removeLog[i] \in named
           /\ \A i \in 1..Len(uploadLog) : uploadLog[i].project \in named

\* C21: a deployment endpoint is invoked by the deploy command only, and only
\* when the Upload stage of the command has finished without throwing: every
\* upload was answered with 200 and main() has gone on to deploy(); a command
\* that has thrown, and the upload and push commands, have invoked none.
C21_DeployOnlyAfterUpload ==
    /\ [](deployLog # << >> =>
             /\ command = "deploy"
             /\ Stage(pc) \in {"Deploy", "Done"}
             /\ StageCompleted("Upload"))
    /\ []((command # "deploy" \/ UploadFailed \/ pc = "thrown") => deployLog = << >>)
    /\ [][deployLog' # deployLog => command = "deploy" /\ pc = "deploy" /\ ~UploadFailed]_vars

C21_Witness ==
    /\ command = "deploy" /\ ~args.merged /\ pc = "done"
    /\ Len(uploadLog) = 3 /\ Len(deployLog) = 2 /\ deployLog[1].rows = <<"T1">>

\* the upload of zip/extensions.zip was answered by an error
ExtensionsFailed == \E i \in 1..Len(extensionsLog) : extensionsLog[i].response # "200"

\* C24: with --extensions, zip/extensions.zip is uploaded once, before the
\* artifact of any project; whatever the answer, upload() does not throw on
\* it and goes on to upload the artifact of every project.
C24_ExtensionsFirstAndNotFatal ==
    /\ error # "extensions"
    /\ Len(extensionsLog) <= 1
    /\ \A i \in 1..Len(extensionsLog) : args.extensions /\ extensionsLog[i].uploaded = 0
    /\ (args.extensions /\ uploadLog # << >>) => extensionsLog # << >>
    /\ ExtensionsFailed =>
          LET uploaded == [i \in 1..Len(uploadLog) |-> uploadLog[i].project]
              all == NamesOf(Reverse(DependencySortedProjects(projects).list))
          IN /\ pc \in {"uploading", "done", "thrown"}
             /\ pc = "uploading" => uploaded \o NamesOf(queue) = all
             /\ pc = "done" => uploaded = all
             /\ pc = "thrown" => UploadFailed /\ error = "upload"

C24_Witness ==
    /\ args.extensions /\ pc = "done"
    /\ Len(extensionsLog) = 1 /\ extensionsLog[1].response = "throw"
    /\ Len(uploadLog) = 3 /\ \A i \in 1..3 : uploadLog[i].response = "200"

\* C30: in separate mode every archive upload() sends is one that zip() has
\* written in the same run of the command, under the same project name and
\* the same version, with and without a --projects filter and whether the
\* version was incremented or retained.
C30_UploadsWhatWasPackaged ==
    ~args.merged =>
        \A i \in 1..Len(uploadLog) :
            \E k \in 1..Len(zipped) :
                /\ zipped[k].project = uploadLog[i].project
                /\ zipped[k].version = uploadLog[i].version

C30_Witness ==
    /\ command = "push" /\ ~args.merged /\ args.projects = <<" A", "C ", "">> /\ pc = "done"
    /\ Len(projects) = 3
    /\ Len(uploadLog) = 2 /\ uploadLog[1].version.core = <<"1", "0", "1">>
    /\ Len(zipped) = 2

(***************************************************************************)
(* SpecDiagnostics: the commands run on sources the transformer warns about*)
(***************************************************************************)
\* the repositories of typescript projects without sibling references, with
\* every choice of the projects whose sources bring a warning
DiagnosticRepositories ==
    UNION {{WithWarnings(Repository(n, {}, {}), W) : W \in SUBSET (1..n)} : n \in 1..MaxProjects}

InitDiagnostics ==
    /\ projects \in DiagnosticRepositories
    /\ sortResult = NoResult /\ filterResult = NoFilterResult
    /\ \E cl \in CommandLines :
          /\ cl.args.projects = NoArg
          /\ command = cl.command /\ args = cl.args
    /\ pc = "start" /\ queue = << >> /\ version = InitialVersion
    /\ declared = << >> /\ compiled = << >> /\ endpoints = << >> /\ zipped = << >>
    /\ removeLog = << >> /\ removeFailure = 0 /\ uploadLog = << >>
    /\ things = << >> /\ deployLog = << >> /\ deployFailure = 0 /\ error = ""
    /\ InstallIdle /\ ConfigIdle /\ WatchIdle /\ ClientIdle

SpecDiagnostics == InitDiagnostics /\ [][Next]_vars

\* the compilations so far have brought no diagnostic but warnings
OnlyWarnings ==
    \A i \in 1..Len(compiled) :
        /\ compiled[i].outcome # "emitSkipped"
        /\ \A k \in 1..Len(compiled[i].messages) : compiled[i].messages[k] = Warning

\* C22: as long as the compilations bring nothing but warnings build() does
\* not throw; it goes through every project and returns, and zip() then
\* writes the archive of every project (the one archive of a merged build);
\* the remove command builds nothing.
C22_WarningsDoNotAbort ==
    OnlyWarnings =>
        /\ error \notin {"Compilation failed.", "Validation failed."}
        /\ \A i \in 1..Len(compiled) : compiled[i].outcome = "ok"
        /\ (Stage(pc) \in {"Package", "Remove", "Upload", "Deploy", "Done"} /\ command # "remove") =>
              Covers([i \in 1..Len(compiled) |-> compiled[i].project], Range(NamesOf(projects)))
        /\ (Stage(pc) \in {"Remove", "Upload", "Deploy", "Done"} /\ command # "remove") =>
              IF args.merged THEN \E k \in 1..Len(zipped) : zipped[k].project = WholePackage.name
              ELSE \A i \in 1..Len(projects) : \E k \in 1..Len(zipped) : zipped[k].project = projects[i].name
        /\ (Len(compiled) = Len(projects) /\ error = "") => pc # "building"

C22_Witness ==
    /\ command = "build" /\ ~args.merged /\ pc = "done"
    /\ Len(compiled) = 3 /\ Len(zipped) = 4
    /\ \A i \in 1..3 : compiled[i].messages = <<Warning>> /\ compiled[i].outcome = "ok"

\* C23: the warnings the transformer reports for a project whose compilation
\* succeeds are written to the output when that compilation ends.
C23_WarningsPrinted ==
    \A i \in 1..Len(compiled) :
        compiled[i].outcome = "ok" => compiled[i].printed = compiled[i].messages

(***************************************************************************)
(* SpecSingle: the commands in a single-project repository                 *)
(***************************************************************************)
\* projectName of a repository that holds one project
SingleName == "Project"

InitSingle ==
    /\ projects = << >> /\ sortResult = NoResult /\ filterResult = NoFilterResult
    /\ \E cl \in CommandLines : command = cl.command /\ args = cl.args
    /\ pc = "start" /\ queue = << >> /\ version = InitialVersion
    /\ declared = << >> /\ compiled = << >> /\ endpoints = << >> /\ zipped = << >>
    /\ removeLog = << >> /\ removeFailure = 0 /\ uploadLog = << >>
    /\ things = << >> /\ deployLog = << >> /\ deployFailure = 0 /\ error = ""
    /\ projectName = SingleName /\ extensionsLog = << >>
    /\ InstallIdle /\ WatchIdle /\ ClientIdle

NextSingle ==
    \/ IncrementVersion
    \/ Dispatch
    \/ Declarations
    \/ BuildSingle
    \/ ProcessEnds
    \/ Zip
    \/ RemoveBegin
    \/ UninstallPackage
    \/ UploadBegin
    \/ UploadProject
    \/ DeployEndpoint
    \/ DeployInvokeThing

SpecSingle == InitSingle /\ [][NextSingle]_vars

\* C26: in single-project mode a compilation that skips emit or reports an
\* Error makes build() reject: main() is rejected with it and nothing is
\* packaged, removed, uploaded or deployed.
C26_SingleBuildAwaited ==
    (projectName # Auto /\ \E i \in 1..Len(compiled) : compiled[i].outcome # "ok") =>
        /\ pc = "thrown"
        /\ zipped = << >> /\ removeLog = << >> /\ uploadLog = << >> /\ deployLog = << >>

(***************************************************************************)
(* SpecInstall: the install command and its recursive download             *)
(***************************************************************************)
\* the largest number of dependencies the server reports, all entities taken
\* together
MaxDependencies == 3

\* the entities of the server, as <kind>/<name>, in the order the server
\* lists them
EntityOrder == <<"Things/A", "ThingTemplates/B", "DataShapes/C">>

\* the dependencies the server may report: any entity may depend on any
\* entity, itself included
DependencyGraphs ==
    {g \in [Range(EntityOrder) -> SUBSET Range(EntityOrder)] :
        Cardinality({e \in Range(EntityOrder) \X Range(EntityOrder) : e[2] \in g[e[1]]}) <= MaxDependencies}

\* the lists of entityDependencies in twconfig.json
DependencyLists == UNION {[1..n -> Range(EntityOrder)] : n \in 1..2}

\* part_007 241: dependencies.rows for an entity
Rows(entity) == SelectSeq(EntityOrder, LAMBDA e : e \in dependencyGraph[entity])

InitInstall ==
    /\ projects = << >> /\ sortResult = NoResult /\ filterResult = NoFilterResult
    /\ command = "install"
    /\ args = [merged |-> FALSE, remove |-> FALSE, retainVersion |-> FALSE, extensions |-> FALSE, projects |-> NoArg]
    /\ pc = "installing" /\ queue = << >> /\ version = InitialVersion
    /\ declared = << >> /\ compiled = << >> /\ endpoints = << >> /\ zipped = << >>
    /\ removeLog = << >> /\ removeFailure = 0 /\ uploadLog = << >>
    /\ things = << >> /\ deployLog = << >> /\ deployFailure = 0 /\ error = ""
    /\ ConfigIdle /\ WatchIdle /\ ClientIdle
    /\ dependencyGraph \in DependencyGraphs
    /\ entityDependencies \in DependencyLists
    /\ dependencyIndex = 0
    /\ installedEntities = {} /\ callStack = << >> /\ fetchLog = << >>

\* everything the install command leaves alone
InstallFrame ==
    UNCHANGED <<repoVars, watchVars, clientVars, configVars, command, args, queue, version, declared,
                compiled, endpoints, zipped, removeLog, removeFailure, uploadLog, things, deployLog,
                deployFailure, dependencyGraph, entityDependencies>>

\* the innermost call of getEntity
Top == callStack[Len(callStack)]
\* the stack when the innermost call has returned
Returned == SubSeq(callStack, 1, Len(callStack) - 1)
\* the stack with the innermost call at another place
TopAt(frame) == [callStack EXCEPT ![Len(callStack)] = frame]

\* part_007 159-162: install() calls getEntity for the next entry of
\* entityDependencies
InstallNextDependency ==
    /\ pc = "installing" /\ callStack = << >>
    /\ dependencyIndex < Len(entityDependencies)
    /\ dependencyIndex' = dependencyIndex + 1
    /\ callStack' = <<[entity |-> entityDependencies[dependencyIndex + 1], at |-> "fetch", rows |-> << >>]>>
    /\ UNCHANGED <<pc, error, installedEntities, fetchLog>>
    /\ InstallFrame

\* part_007 164-172: the loop of install() has ended
InstallEnds ==
    /\ pc = "installing" /\ callStack = << >>
    /\ dependencyIndex = Len(entityDependencies)
    /\ pc' = "done"
    /\ UNCHANGED <<error, dependencyIndex, installedEntities, callStack, fetchLog>>
    /\ InstallFrame

\* part_007 192: the entity is recorded as installed
AlreadyInstalled(entity) == entity \in installedEntities

\* part_007 405-406 and the like: the import functions record the entity
\* before they write its declaration
Recorded_Nothing(entity) == installedEntities
Recorded(entity) == installedEntities \cup {entity}

\* part_007 251-258: the catch around the loop over the dependencies takes
\* what a call of getEntity for a dependency throws
LoopCatches_Nothing == FALSE
LoopCatches == TRUE

\* part_007 239-262: the catch around the lookup of the dependencies
LookupRejects(response) == FALSE

\* the stack after the innermost call has thrown: the call that made it leaves
\* its loop and returns; a call made by install() has nobody to catch
RECURSIVE Unwound(_)
Unwound(stack) ==
    IF Len(stack) <= 1 THEN << >>
    ELSE IF LoopCatches THEN SubSeq(stack, 1, Len(stack) - 2)
    ELSE Unwound(SubSeq(stack, 1, Len(stack) - 1))

\* the throw leaves install()
Escapes(stack) == Len(stack) <= 1 \/ ~LoopCatches

\* part_007 184-236: getEntity up to the import of the entity
GetEntity ==
    /\ pc = "installing" /\ callStack # << >> /\ Top.at = "fetch"
    /\ IF AlreadyInstalled(Top.entity)
       THEN /\ callStack' = Returned
            /\ UNCHANGED <<pc, error, installedEntities, fetchLog>>
       ELSE \E response \in {"200", "system", "500"} :
               /\ fetchLog' = Append(fetchLog, [entity |-> Top.entity, request |-> "metadata",
                                                response |-> response, direct |-> Len(callStack) = 1])
               /\ CASE response = "500" ->
                          /\ callStack' = Unwound(callStack)
                          /\ IF Escapes(callStack)
                             THEN Reject("Could not get the metadata")
                             ELSE UNCHANGED <<pc, error>>
                          /\ installedEntities' = installedEntities
                    [] response = "system" ->
                          /\ callStack' = Returned
                          /\ UNCHANGED <<pc, error, installedEntities>>
                    [] OTHER ->
                          /\ installedEntities' = Recorded(Top.entity)
                          /\ callStack' = TopAt([Top EXCEPT !.at = "lookup"])
                          /\ UNCHANGED <<pc, error>>
    /\ dependencyIndex' = dependencyIndex
    /\ InstallFrame

\* part_007 239-249, 260-262: the dependencies of the entity are asked for
GetEntityDependencies ==
    /\ pc = "installing" /\ callStack # << >> /\ Top.at = "lookup"
    /\ \E response \in {"200", "500"} :
          /\ fetchLog' = Append(fetchLog, [entity |-> Top.entity, request |-> "dependencies",
                                           response |-> response, direct |-> Len(callStack) = 1])
          /\ IF response = "200"
             THEN callStack' = TopAt([Top EXCEPT !.at = "loop", !.rows = Rows(Top.entity)]) /\ UNCHANGED <<pc, error>>
             ELSE IF LookupRejects(response)
             THEN callStack' = Unwound(callStack) /\ Reject("Could not get the dependency list")
             ELSE callStack' = Returned /\ UNCHANGED <<pc, error>>
    /\ UNCHANGED <<dependencyIndex, installedEntities>>
    /\ InstallFrame

\* part_007 252-254: getEntity is called for the next dependency
VisitDependency ==
    /\ pc = "installing" /\ callStack # << >> /\ Top.at = "loop" /\ Top.rows # << >>
    /\ callStack' = Append(TopAt([Top EXCEPT !.rows = Tail(@)]),
                           [entity |-> Head(Top.rows), at |-> "fetch", rows |-> << >>])
    /\ UNCHANGED <<pc, error, dependencyIndex, installedEntities, fetchLog>>
    /\ InstallFrame

\* part_007 263: the loop over the dependencies has ended and getEntity returns
GetEntityReturns ==
    /\ pc = "installing" /\ callStack # << >> /\ Top.at = "loop" /\ Top.rows = << >>
    /\ callStack' = Returned
    /\ UNCHANGED <<pc, error, dependencyIndex, installedEntities, fetchLog>>
    /\ InstallFrame

NextInstall ==
    \/ InstallNextDependency
    \/ InstallEnds
    \/ GetEntity
    \/ GetEntityDependencies
    \/ VisitDependency
    \/ GetEntityReturns

\* the event loop runs what is ready to run
SpecInstall == InitInstall /\ [][NextInstall]_vars /\ WF_vars(NextInstall)

\* the last request of the install command
LastFetch == fetchLog[Len(fetchLog)]

\* a request that failed while the dependencies of an entity were resolved:
\* the lookup of its dependency list, or the metadata of an indirect dependency
ResolutionFailed(fetch) ==
    fetch.response = "500" /\ (fetch.request = "dependencies" \/ ~fetch.direct)

\* the entity whose dependencies were being resolved when the innermost call
\* sent its last request
ParentEntity ==
    IF Top.at = "lookup" THEN Top.entity ELSE callStack[Len(callStack) - 1].entity

\* C25: during install, a failure of the lookup of an entity's dependency list
\* or of the fetch of an indirect dependency is not fatal: install is not
\* rejected, getEntity for the parent entity returns, the parent stays
\* installed, and install goes on to the end of the configured dependencies;
\* only the metadata of a configured dependency can reject install
C25_ResolutionFailureNotFatal ==
    /\ [][(fetchLog' # fetchLog /\ ResolutionFailed(fetchLog'[Len(fetchLog')])) =>
            /\ pc' = "installing" /\ error' = ""
            /\ ParentEntity \in installedEntities'
            /\ Len(callStack') < Len(callStack)
            /\ \A i \in 1..Len(callStack') : callStack'[i] = callStack[i]]_vars
    /\ [][installedEntities \subseteq installedEntities']_vars
    /\ [](pc = "thrown" => LastFetch.direct /\ LastFetch.request = "metadata" /\ LastFetch.response = "500")
    /\ [](pc = "done" => dependencyIndex = Len(entityDependencies))

\* install has ended after a lookup and an indirect fetch have failed, and a
\* configured dependency was fetched after the failures
C25_Witness ==
    /\ pc = "done"
    /\ \E i, j, k \in 1..Len(fetchLog) :
          /\ i < k /\ j < k
          /\ fetchLog[i].response = "500" /\ fetchLog[i].request = "dependencies"
          /\ fetchLog[j].response = "500" /\ fetchLog[j].request = "metadata" /\ ~fetchLog[j].direct
          /\ fetchLog[k].direct /\ fetchLog[k].response = "200"

\* the requests for the metadata of an entity that were answered with it
Imports(entity) ==
    {i \in 1..Len(fetchLog) : /\ fetchLog[i].entity = entity
                              /\ fetchLog[i].request = "metadata"
                              /\ fetchLog[i].response = "200"}

\* C28: the recursive download ends for every dependency graph, cycles
\* included: an entity is recorded as installed before its dependencies are
\* asked for or visited, and no request for its metadata is sent afterwards
C28_DownloadTerminates ==
    /\ [](\A i \in 1..Len(callStack) :
             callStack[i].at \in {"lookup", "loop"} => callStack[i].entity \in installedEntities)
    /\ [][fetchLog' # fetchLog /\ fetchLog'[Len(fetchLog')].request = "metadata" =>
             fetchLog'[Len(fetchLog')].entity \notin installedEntities]_vars
    /\ [](\A entity \in Range(EntityOrder) : Cardinality(Imports(entity)) <= 1)
    /\ <>(pc \in {"done", "thrown"})

\* install has ended after it went round a cycle of two entities
C28_Witness ==
    /\ pc = "done"
    /\ \E a, b \in installedEntities :
          /\ a # b /\ b \in dependencyGraph[a] /\ a \in dependencyGraph[b]
          /\ Cardinality(Imports(a)) = 1 /\ Cardinality(Imports(b)) = 1

(***************************************************************************)
(* SpecDeploy: deploy(endpoints) called with every list of endpoints       *)
(***************************************************************************)
\* the longest list of endpoints deploy() is called with
MaxDeployList == 3

EndpointNames == <<"E1", "E2", "E3", "E4", "E5">>

EndpointLists ==
    UNION {{[i \in 1..n |-> [kind |-> kinds[i], name |-> EndpointNames[i], service |-> "deploy"]] :
              kinds \in [1..n -> EntityKinds]} : n \in 0..MaxDeployList}

InitDeploy ==
    /\ projects = << >> /\ sortResult = NoResult /\ filterResult = NoFilterResult
    /\ command = "deploy"
    /\ args = [merged |-> FALSE, remove |-> FALSE, retainVersion |-> FALSE, extensions |-> FALSE, projects |-> NoArg]
    /\ endpoints \in EndpointLists
    /\ queue = endpoints
    /\ pc = DeployDone(endpoints, << >>)
    /\ version = InitialVersion /\ declared = << >> /\ compiled = << >> /\ zipped = << >>
    /\ removeLog = << >> /\ removeFailure = 0 /\ uploadLog = << >>
    /\ things = << >> /\ deployLog = << >> /\ deployFailure = 0 /\ error = ""
    /\ InstallIdle /\ ConfigIdle /\ WatchIdle /\ ClientIdle

NextDeploy == DeployEndpoint \/ DeployInvokeThing

SpecDeploy == InitDeploy /\ [][NextDeploy]_vars

\* the request deploy() sends first for an endpoint
IsRequestOf(r, e) ==
    /\ r.kind = e.kind /\ r.name = e.name
    /\ r.service = IF e.kind = "Thing" THEN e.service ELSE "GetImplementingThings"

\* C8: whatever the server answers, deploy() does not throw, the request of
\* every endpoint of a supported kind the loop has passed was sent, and when
\* deploy() has returned the service was invoked on every thing a
\* GetImplementingThings query reported.
C8_DeployNeverThrows ==
    /\ pc # "thrown" /\ error = ""
    /\ \A k \in 1..Len(endpoints) :
          (k <= Len(endpoints) - Len(queue) /\ endpoints[k].kind \in {"Thing", "ThingTemplate", "ThingShape"}) =>
              \E i \in 1..Len(deployLog) : IsRequestOf(deployLog[i], endpoints[k])
    /\ pc = "done" =>
          /\ queue = << >> /\ things = << >>
          /\ \A i \in 1..Len(deployLog) :
                \A r \in 1..Len(deployLog[i].rows) :
                    /\ i + r <= Len(deployLog)
                    /\ deployLog[i + r].kind = "Thing"
                    /\ deployLog[i + r].name = deployLog[i].rows[r]
                    /\ deployLog[i + r].service = "deploy"

C8_Witness ==
    /\ pc = "done" /\ Len(endpoints) = 3
    /\ endpoints[1].kind = "Thing" /\ endpoints[2].kind = "ThingTemplate" /\ endpoints[3].kind = "Thing"
    /\ deployFailure = 1
    /\ Len(deployLog) = 5 /\ deployLog[2].rows = <<"T1", "T2">>

(***************************************************************************)
(* SpecWatch: the watch command                                            *)
(***************************************************************************)
\* the largest number of changes the user makes under src/
MaxChanges == 3

InitWatch ==
    /\ projects = << >> /\ sortResult = NoResult /\ filterResult = NoFilterResult
    /\ command = "watch"
    /\ args = [merged |-> FALSE, remove |-> FALSE, retainVersion |-> FALSE, extensions |-> FALSE, projects |-> NoArg]
    /\ pc = "watching" /\ queue = << >> /\ version = InitialVersion
    /\ declared = << >> /\ compiled = << >> /\ endpoints = << >> /\ zipped = << >>
    /\ removeLog = << >> /\ removeFailure = 0 /\ uploadLog = << >>
    /\ things = << >> /\ deployLog = << >> /\ deployFailure = 0 /\ error = ""
    /\ InstallIdle /\ ConfigIdle /\ WatchIdle /\ ClientIdle

\* The names of the files fs.watch reports, relative to src/, cut at the
\* separators the pattern of index.ts 38 takes ([\/\\]).
\* a source file the user edits
SourceFile == <<"A", "Thing.ts">>
\* part_006 68-69: the declarations of the method helpers of a multi-project
\* repository, src/static/gen/Generated.d.ts
RootGenerated == <<"static", "gen", "Generated.d.ts">>
\* part_006 61-62: the declarations of the project A
ProjectGenerated == <<"A", "static", "gen", "Generated.d.ts">>
\* the files a run of declarations() writes under src/, in the order it
\* writes them; the folders static/gen are there since the first run
WrittenFiles == <<RootGenerated, ProjectGenerated>>

\* a file under src/ that declarations() does not write is changed; the event
\* waits until the event loop hands it to the callback of fs.watch
FileChanged ==
    /\ pc = "watching" /\ changes < MaxChanges
    /\ changes' = changes + 1
    /\ pending' = Append(pending, SourceFile)
    /\ UNCHANGED <<installVars, configVars, clientVars, repoVars, mainVars, declarationsRunning, timers, running, runs, dropped,
                   windowEvents, windowRuns>>

\* index.ts 34: if (declarationsRunning) return
GuardDrops_Never(flag) == FALSE
GuardDrops(flag) == flag

\* index.ts 38: filename.match(/(.*)[\/\\]?static[\/\\]gen[\/\\]Generated\.d\.ts$/):
\* the name ends with static, gen and Generated.d.ts; the separator before
\* static is optional, so the file of src/static/gen is matched as well
IsGenerated_SeparatorRequired(file) ==
    Len(file) >= 4 /\ SubSeq(file, Len(file) - 2, Len(file)) = <<"static", "gen", "Generated.d.ts">>
IsGenerated(file) ==
    Len(file) >= 3 /\ SubSeq(file, Len(file) - 2, Len(file)) = <<"static", "gen", "Generated.d.ts">>

\* index.ts 41: the value the flag is given before the timer is set
FlagWhenScheduled_Unset == FALSE
FlagWhenScheduled == TRUE

\* index.ts 33-47: the callback of fs.watch is called with the next event.
\* declarations() is synchronous, no callback runs while it is running.
Notify ==
    /\ pc = "watching" /\ pending # << >> /\ ~running
    /\ pending' = Tail(pending)
    /\ LET file == Head(pending)
           counted == IF IsGenerated(file) THEN 0 ELSE 1
       IN IF GuardDrops(declarationsRunning)
          THEN /\ dropped' = dropped + counted
               /\ windowEvents' = IF timers > 0 THEN windowEvents + counted ELSE windowEvents
               /\ UNCHANGED <<declarationsRunning, timers, windowRuns>>
          ELSE IF IsGenerated(file)
          THEN UNCHANGED <<declarationsRunning, timers, dropped, windowEvents, windowRuns>>
          ELSE /\ declarationsRunning' = FlagWhenScheduled
               /\ timers' = timers + 1
               /\ windowEvents' = IF timers > 0 THEN windowEvents + 1 ELSE 1
               /\ windowRuns' = IF timers > 0 THEN windowRuns ELSE 0
               /\ dropped' = dropped
    /\ UNCHANGED <<installVars, configVars, clientVars, repoVars, mainVars, running, changes, runs>>

\* index.ts 43-44: 500 ms after it was set a timer calls declarations()
TimerFires ==
    /\ pc = "watching" /\ timers > 0 /\ ~running
    /\ timers' = timers - 1
    /\ running' = TRUE
    /\ runs' = runs + 1
    /\ windowRuns' = windowRuns + 1
    /\ UNCHANGED <<installVars, configVars, clientVars, repoVars, mainVars, declarationsRunning, pending, changes, dropped, windowEvents>>

\* index.ts 44-46: declarations() returns and the flag is cleared, or it
\* throws before it has written every file: the flag stays set, and node ends
\* the process on the unhandled rejection unless it is run with
\* --unhandled-rejections=warn.  The notifications of the files written wait
\* for the event loop.
DeclarationsEnds ==
    /\ pc = "watching" /\ running
    /\ running' = FALSE
    /\ \/ /\ declarationsRunning' = FALSE
          /\ pending' = pending \o WrittenFiles
          /\ UNCHANGED <<pc, error>>
       \/ /\ declarationsRunning' = declarationsRunning
          /\ \E written \in 0..(Len(WrittenFiles) - 1) : pending' = pending \o SubSeq(WrittenFiles, 1, written)
          /\ \/ UNCHANGED <<pc, error>>
             \/ pc' = "crashed" /\ error' = "declarations"
    /\ UNCHANGED <<installVars, configVars, clientVars, declared, repoVars, command, args, queue, version, compiled, endpoints, zipped,
                   removeLog, removeFailure, uploadLog, things, deployLog, deployFailure,
                   timers, changes, runs, dropped, windowEvents, windowRuns>>

NextWatch == FileChanged \/ Notify \/ TimerFires \/ DeclarationsEnds

SpecWatch == InitWatch /\ [][NextWatch]_vars

InFlight == IF running THEN 1 ELSE 0

\* C9: however many notifications for source files arrive between the setting
\* of the timer and its firing, they lead to one Declarations run.
C9_DebounceOneRun ==
    windowEvents >= 2 => timers + windowRuns = 1

C9_Witness ==
    /\ windowEvents = 3 /\ dropped = 2 /\ timers = 0 /\ runs = 1 /\ windowRuns = 1
    /\ ~running /\ ~declarationsRunning

C29_GuardReturnsToIdle ==
    (~running /\ timers = 0) => ~declarationsRunning

(***************************************************************************)
(* SpecSort: dependencySortedProjects called on every repository           *)
(***************************************************************************)
InitSort ==
    /\ projects \in Repositories
    /\ sortResult = NoResult /\ filterResult = NoFilterResult
    /\ MainIdle
    /\ InstallIdle /\ ConfigIdle /\ WatchIdle /\ ClientIdle

CallDependencySortedProjects ==
    /\ ~sortResult.called
    /\ sortResult' = Called(DependencySortedProjects(projects), projects)
    /\ UNCHANGED <<installVars, configVars, clientVars, projects, filterResult, mainVars, watchVars>>

NextSort == CallDependencySortedProjects

SpecSort == InitSort /\ [][NextSort]_vars

\* C1: when the declared edges form a DAG, the returned list places every
\* dependent project before each project it declares as a dependency.
C1_DependentsFirst ==
    (sortResult.called /\ ~sortResult.threw /\ IsDAG(projects)) =>
        \A a, b \in Range(NamesOf(projects)) :
            DependsOn(projects, a, b) => Before(sortResult.list, a, b)

====
